---- MODULE Spec2Model ----
(***************************************************************************)
(* DogWatch (dog_watch.py): the detection loop of main(), the frame store  *)
(* (FRAME_DIR, prune_old_frames, api_frames), the status file             *)
(* (update_status, api_status), the notification throttle, the heartbeat,  *)
(* the detached background tasks, and analyze_frame and                    *)
(* bbox_overlap_fraction applied on their own.                             *)
(*                                                                         *)
(* Units.  Time is in whole seconds (time.time() and datetime.now() read   *)
(* the same wall clock, which is taken to be non-decreasing).  Confidences *)
(* and the ROI overlap threshold are in percent (0.50 -> 50).  Bounding    *)
(* boxes are on an integer grid 0..Grid standing for 0.0..1.0.             *)
(***************************************************************************)
EXTENDS Integers, Sequences, FiniteSets, TLC

\* ------------------------------------------------------------------ config
PERSON_CLASS == "person"
DOG_CLASS == "dog"
DOG_CONFIDENCE_THRESHOLD == 50
PERSON_CONFIDENCE_THRESHOLD == 30
CAPTURE_INTERVAL == 1
NOTIFY_COOLDOWN == 60
MAX_KEPT_FRAMES == 10
ROI_OVERLAP_THRESHOLD == 50
HEALTH_HEARTBEAT_INTERVAL == 1800
AUDIO_ENABLED == FALSE

\* ------------------------------------------------------------------ bounds
\* largest dog count tried when update_status is applied to every input
MaxDogs == 2
\* longest detection sequence analyze_frame is applied to on its own
MaxDets == 2
\* length of a run of consecutive cycles that each see a dog and no human
MaxRun == 11
\* number of detection cycles explored
MaxCycles == 2
\* samples the camera may complete while one capture request is held
MaxAhead == 1
\* wall clock at the first cycle: day 0, 23:59:58, so that the frame names
\* roll over the minute, the hour and the day within the run
StartClock == 86398
\* side of the integer grid the normalized boxes live on
Grid == 4

COUCH_ROI == <<0, 0, Grid, Grid>>

\* ------------------------------------------------------- pure functions
Max(a, b) == IF a >= b THEN a ELSE b
Min(a, b) == IF a <= b THEN a ELSE b

\* mutant: the intersection as a fraction of the ROI's area
bbox_overlap_fraction_of_roi(dog_bbox, roi) ==
    LET ix1 == Max(dog_bbox[1], roi[1])
        iy1 == Max(dog_bbox[2], roi[2])
        ix2 == Min(dog_bbox[3], roi[3])
        iy2 == Min(dog_bbox[4], roi[4])
        intersection == (ix2 - ix1) * (iy2 - iy1)
        roi_area == (roi[3] - roi[1]) * (roi[4] - roi[2])
    IN  IF ix1 >= ix2 \/ iy1 >= iy2 THEN [num |-> 0, den |-> 1]
        ELSE IF roi_area <= 0 THEN [num |-> 0, den |-> 1]
        ELSE [num |-> intersection, den |-> roi_area]

\* bbox_overlap_fraction: the fraction as a pair num/den (den > 0)
bbox_overlap_fraction(dog_bbox, roi) ==
    LET dx1 == dog_bbox[1]  dy1 == dog_bbox[2]
        dx2 == dog_bbox[3]  dy2 == dog_bbox[4]
        rx1 == roi[1]  ry1 == roi[2]
        rx2 == roi[3]  ry2 == roi[4]
        ix1 == Max(dx1, rx1)
        iy1 == Max(dy1, ry1)
        ix2 == Min(dx2, rx2)
        iy2 == Min(dy2, ry2)
        intersection == (ix2 - ix1) * (iy2 - iy1)
        dog_area == (dx2 - dx1) * (dy2 - dy1)
    IN  IF ix1 >= ix2 \/ iy1 >= iy2 THEN [num |-> 0, den |-> 1]
        ELSE IF dog_area <= 0 THEN [num |-> 0, den |-> 1]
        ELSE [num |-> intersection, den |-> dog_area]

\* intrinsics.labels: the label table the class ids index (0-based)
Labels == <<"person", "bicycle", "dog">>

\* a raw inference output (np_outputs): four parallel arrays, or absent
NoOutput == [present |-> FALSE, boxes |-> <<>>, classes |-> <<>>,
             scores |-> <<>>, num |-> 0]
RawOutput(bs, cs, ss, n) ==
    [present |-> TRUE, boxes |-> bs, classes |-> cs, scores |-> ss, num |-> n]

\* parse_detections: ok = FALSE stands for the IndexError of classes[i],
\* scores[i] or boxes[i] with i beyond the array
parse_detections(out) ==
    IF ~out.present THEN [ok |-> TRUE, dets |-> <<>>]
    ELSE IF out.num > Len(out.classes) \/ out.num > Len(out.scores)
            \/ out.num > Len(out.boxes)
         THEN [ok |-> FALSE, dets |-> <<>>]
    ELSE [ok |-> TRUE,
          dets |-> [i \in 1..out.num |->
                      [label |-> IF out.classes[i] < Len(Labels)
                                 THEN Labels[out.classes[i] + 1]
                                 ELSE "unknown",
                       score |-> out.scores[i],
                       bbox  |-> out.boxes[i]]]]

\* mutant: a person counts only if its box overlaps the ROI
AnalyzeStepPersonInRoi(acc, d) ==
    LET overlap == bbox_overlap_fraction(d.bbox, COUCH_ROI)
        inroi == overlap.num * 100 >= ROI_OVERLAP_THRESHOLD * overlap.den
        human == acc.human_detected
                 \/ (d.label = PERSON_CLASS /\ inroi
                     /\ d.score >= PERSON_CONFIDENCE_THRESHOLD)
        counted == /\ d.label = DOG_CLASS
                   /\ d.score >= DOG_CONFIDENCE_THRESHOLD
                   /\ inroi
    IN  [dog_count |-> IF counted THEN acc.dog_count + 1 ELSE acc.dog_count,
         max_dog_confidence |-> IF counted THEN Max(acc.max_dog_confidence, d.score)
                                ELSE acc.max_dog_confidence,
         human_detected |-> human]

\* the body of analyze_frame's loop for one detection
AnalyzeStep(acc, d) ==
    LET human == acc.human_detected
                 \/ (d.label = PERSON_CLASS /\ d.score >= PERSON_CONFIDENCE_THRESHOLD)
        overlap == bbox_overlap_fraction(d.bbox, COUCH_ROI)
        counted == /\ d.label = DOG_CLASS
                   /\ d.score >= DOG_CONFIDENCE_THRESHOLD
                   /\ overlap.num * 100 >= ROI_OVERLAP_THRESHOLD * overlap.den
    IN  [dog_count |-> IF counted THEN acc.dog_count + 1 ELSE acc.dog_count,
         max_dog_confidence |-> IF counted THEN Max(acc.max_dog_confidence, d.score)
                                ELSE acc.max_dog_confidence,
         human_detected |-> human]

RECURSIVE AnalyzeFrom(_, _, _)
AnalyzeFrom(dets, i, acc) ==
    IF i > Len(dets) THEN acc
    ELSE AnalyzeFrom(dets, i + 1, AnalyzeStep(acc, dets[i]))

\* analyze_frame on an already decoded detection sequence
analyze_frame(dets) ==
    AnalyzeFrom(dets, 1, [dog_count |-> 0, max_dog_confidence |-> 0,
                          human_detected |-> FALSE])

\* mutant: a name to the minute, %Y%m%d_%H%M
strftime_to_minute(t) ==
    LET Two(n) == <<n \div 10, n % 10>>
    IN  Two((t \div 86400) % 100) \o Two((t \div 3600) % 24)
            \o Two((t \div 60) % 60) \o <<0, 0>>

\* strftime: the zero-padded digits of the wall clock, most significant first
\* (two digits of day count standing for %Y%m%d, then %H %M %S)
Fmt2(n) == <<n \div 10, n % 10>>
strftime(t) ==
    Fmt2((t \div 86400) % 100) \o Fmt2((t \div 3600) % 24)
        \o Fmt2((t \div 60) % 60) \o Fmt2(t % 60)

\* string comparison of two names of equal length, as sorted() compares paths
RECURSIVE LexLess(_, _)
LexLess(a, b) ==
    IF a = <<>> \/ b = <<>> THEN a = <<>> /\ b # <<>>
    ELSE IF Head(a) # Head(b) THEN Head(a) < Head(b)
    ELSE LexLess(Tail(a), Tail(b))

\* sorted(FRAME_DIR.glob("dog_*.jpg")): the names of a set of files, ascending
RECURSIVE SortedNames(_)
SortedNames(S) ==
    IF S = {} THEN <<>>
    ELSE LET m == CHOOSE x \in S : \A y \in S \ {x} : LexLess(x, y)
         IN  <<m>> \o SortedNames(S \ {m})

\* ------------------------------------------------------------ environment
\* the scenes the camera may sample: its raw inference output
SceneEmpty == RawOutput(<<>>, <<>>, <<>>, 0)
SceneDog == RawOutput(<< <<1, 1, 2, 2>> >>, <<2>>, <<62>>, 1)
ScenePersonDog ==
    RawOutput(<< <<0, 0, 1, 2>>, <<1, 1, 3, 3>> >>, <<0, 2>>, <<35, 90>>, 2)
SceneMalformed == RawOutput(<< <<1, 1, 2, 2>> >>, <<2>>, <<62>>, 2)
Scenes == {NoOutput, SceneEmpty, SceneDog, ScenePersonDog, SceneMalformed}

\* how long a time.sleep(CAPTURE_INTERVAL) may take: the interval, or longer
\* (exactly the cooldown; just past the heartbeat interval)
SleepTimes ==
    {CAPTURE_INTERVAL, NOTIFY_COOLDOWN, HEALTH_HEARTBEAT_INTERVAL + CAPTURE_INTERVAL}

\* a camera sample: metadata (scene) and pixels of one instant
Sample(c, k, sc) == [cycle |-> c, seq |-> k, scene |-> sc]
NoSample == Sample(0, 0, NoOutput)

\* frames a previous run of the program left in FRAME_DIR
PriorFrames ==
    {[name |-> strftime(StartClock - 10 * k), pix |-> Sample(0, k, SceneDog),
      meta |-> Sample(0, k, SceneDog), ctime |-> StartClock - 10 * k]
        : k \in 1..MAX_KEPT_FRAMES}

\* ------------------------------------------------------------------ state
VARIABLES
    pc,              \* position of main()'s loop
    clock,           \* wall clock, seconds
    cycle,           \* number of loop iterations started
    sensor,          \* the sample the camera completed last
    request,         \* the capture request held (NoSample: none)
    requests_held,   \* capture requests obtained and not yet released
    releases,        \* request.release() calls made in this iteration
    dog_count, confidence, human_found,   \* locals of main()
    raised,          \* exception raised in this iteration ("none": none)
    frames,          \* the files FRAME_DIR/dog_*.jpg
    prune_list,      \* local `frames` of prune_old_frames
    last_notified, last_dog_time, last_heartbeat,
    dir, inodes,     \* directory entries and file contents of the status files
    notif_tasks, hb_tasks,   \* send_notification / send_heartbeat threads in flight
    task_errors,     \* deliveries that failed (the error lines the threads logged)
    dispatches,      \* times at which a notification thread was started
    hb_dispatches,   \* times at which a heartbeat thread was started
    pubs,            \* status publishes completed in this iteration
    sleeps,          \* sleeps completed in this iteration
    rd_pc, rd_ino, rd_buf, rd_result, rd_window,   \* api_status request
    ls_pc, ls_snapshot, ls_result,   \* api_frames request
    fn_pc, fn_arg, fn_result   \* a call of a pure function on its own

loopvars == <<pc, clock, cycle, request, requests_held, releases, dog_count,
              confidence, human_found, raised, frames, prune_list,
              last_notified, last_dog_time, last_heartbeat, dispatches, hb_dispatches, pubs, sleeps>>
fsvars == <<dir, inodes>>
taskvars == <<notif_tasks, hb_tasks, task_errors>>
rdvars == <<rd_pc, rd_ino, rd_buf, rd_result>>
lsvars == <<ls_pc, ls_snapshot, ls_result>>
fnvars == <<fn_pc, fn_arg, fn_result>>
vars == <<loopvars, sensor, fsvars, taskvars, rdvars, rd_window,
          lsvars, fnvars>>

STATUS_FILE == "status.json"
\* mutant: the document is written to the status file in place
TmpPathInPlace == STATUS_FILE

\* line 242: tmp = STATUS_FILE.with_suffix(".tmp")
TmpPath == "status.tmp"
Paths == {STATUS_FILE, "status.tmp"}
Inodes == 1..3

\* ----------------------------------------------------------- status document
\* mutant: recording_active follows the dog count alone
StatusDocRecordingInPrivacy(dc, human_present, ldt, now) ==
    [dog_detected |-> dc > 0,
     dog_count |-> dc,
     human_detected |-> human_present,
     recording_active |-> dc > 0,
     privacy_mode |-> human_present,
     last_dog_seen |-> ldt,
     timestamp |-> now]

\* mutant: a privacy-mode document does not carry the last-dog-seen time
StatusDocPrivacyHidesLastSeen(dc, human_present, ldt, now) ==
    [dog_detected |-> dc > 0,
     dog_count |-> dc,
     human_detected |-> human_present,
     recording_active |-> (dc > 0 /\ ~human_present),
     privacy_mode |-> human_present,
     last_dog_seen |-> IF human_present THEN <<>> ELSE ldt,
     timestamp |-> now]

\* the dict update_status builds
StatusDoc(dc, human_present, ldt, now) ==
    [dog_detected |-> dc > 0,
     dog_count |-> dc,
     human_detected |-> human_present,
     recording_active |-> (dc > 0 /\ ~human_present),
     privacy_mode |-> human_present,
     last_dog_seen |-> ldt,
     timestamp |-> now]

\* json.dumps: the document as text, one key/value pair after the other
JsonDumps(d) ==
    << <<"dog_detected", d.dog_detected>>, <<"dog_count", d.dog_count>>,
       <<"human_detected", d.human_detected>>,
       <<"recording_active", d.recording_active>>,
       <<"privacy_mode", d.privacy_mode>>, <<"last_dog_seen", d.last_dog_seen>>,
       <<"timestamp", d.timestamp>> >>
DocLen == 7
\* pairs written or read by one write()/read() call
ChunkLen == 4

\* json.loads: a document if the text is complete, else a JSONDecodeError
JsonLoads(text) ==
    IF Len(text) # DocLen THEN [ok |-> FALSE, doc |-> StatusDoc(0, FALSE, <<>>, 0)]
    ELSE [ok |-> TRUE,
          doc |-> [dog_detected |-> text[1][2], dog_count |-> text[2][2],
                   human_detected |-> text[3][2], recording_active |-> text[4][2],
                   privacy_mode |-> text[5][2], last_dog_seen |-> text[6][2],
                   timestamp |-> text[7][2]]]

\* lines 345-346: the document returned when there is no status file
DefaultStatus ==
    [dog_detected |-> FALSE, dog_count |-> 0, human_detected |-> FALSE,
     privacy_mode |-> FALSE, last_dog_seen |-> <<>>]

\* the inode a new file gets: one that no path and no open file refers to
FreeInode == CHOOSE i \in Inodes : (\A p \in Paths : dir[p] # i) /\ rd_ino # i

\* the document the status file holds (published last), if any
Published ==
    IF dir[STATUS_FILE] = 0 THEN [ok |-> FALSE, doc |-> StatusDoc(0, FALSE, <<>>, 0)]
    ELSE JsonLoads(inodes[dir[STATUS_FILE]])

\* ------------------------------------------------------------------ Init
\* main() up to the loop (lines 411-421), the files it finds, no request
\* being served
InitMain ==
    /\ pc = "capture"
    /\ clock = StartClock
    /\ cycle = 0
    /\ sensor = NoSample
    /\ request = NoSample
    /\ requests_held = 0 /\ releases = 0
    /\ dog_count = 0 /\ confidence = 0 /\ human_found = FALSE
    /\ raised = "none"
    /\ frames \in {{}, PriorFrames}
    /\ prune_list = <<>>
    /\ last_notified = 0
    /\ last_dog_time = <<>>
    /\ last_heartbeat = StartClock
    /\ dir = [p \in Paths |-> 0]
    /\ inodes = [i \in Inodes |-> <<>>]
    /\ notif_tasks = 0
    /\ hb_tasks = 1
    /\ task_errors = 0
    /\ dispatches = <<>>
    /\ hb_dispatches = <<StartClock>>
    /\ pubs = 0 /\ sleeps = 0
    /\ rd_pc = "idle" /\ rd_ino = 0 /\ rd_buf = <<>>
    /\ rd_result = [kind |-> "none", doc |-> DefaultStatus]
    /\ rd_window = {}
    /\ ls_pc = "idle" /\ ls_snapshot = {} /\ ls_result = <<>>

\* the program as it runs: no function is called apart from it
Init ==
    /\ InitMain
    /\ fn_pc = "none" /\ fn_arg = <<>> /\ fn_result = <<>>

\* ------------------------------------------------------------ main(): loop
\* mutant: the dog test comes before the privacy gate
AfterAnalysisNoGate(hf, dc) ==
    IF dc > 0 THEN "save" ELSE "status"

\* mutant: the status is published without saving the frame first
AfterAnalysisNoSave(hf, dc) == "status"

\* mutant: the throttle is evaluated before the frame is saved
AfterAnalysisNotifyFirst(hf, dc) ==
    IF hf THEN "status" ELSE IF dc > 0 THEN "notify" ELSE "status"

\* lines 435 and 445: where the iteration goes once the frame is analysed
AfterAnalysis(hf, dc) ==
    IF hf THEN "status" ELSE IF dc > 0 THEN "save" ELSE "status"

\* mutant: picam2.capture_array(), the pixels of the camera's latest sample
FramePixelsLatest(req, sens) == sens

\* line 452: request.make_array("main"), the pixels of the request held
FramePixels(req, sens) == req

\* mutant: no throttle, every qualifying cycle notifies
ShouldNotifyNoThrottle(now, last) == TRUE

\* mutant: a notification exactly one cooldown after the last is let through
ShouldNotifyAtCooldown(now, last) == now - last >= NOTIFY_COOLDOWN

\* line 467: the cooldown test
ShouldNotify(now, last) == now - last > NOTIFY_COOLDOWN

\* line 485: the heartbeat test
HeartbeatDue(now, last) == now - last > HEALTH_HEARTBEAT_INTERVAL

\* line 250: the loop condition of prune_old_frames
MustPrune(list) == Len(list) > MAX_KEPT_FRAMES

\* mutant: frames.pop(), the newest file
PruneVictimNewest(list) == list[Len(list)]

\* line 251: frames.pop(0), the file prune_old_frames unlinks next
PruneVictim(list) == Head(list)

\* mutant: the handler goes on to the next iteration without the sleep
AfterExceptNoDelay == "capture"

\* lines 489-492: where the iteration goes once `except Exception` has logged
AfterExcept == "sleep"

\* line 428: picam2.capture_request() returns the next completed sample, one
\* of the given scenes, in a run of at most `limit` iterations
CaptureOf(limit, scenes) ==
    /\ pc = "capture"
    /\ cycle < limit
    /\ \E sc \in scenes :
         /\ sensor' = Sample(cycle + 1, 0, sc)
         /\ request' = Sample(cycle + 1, 0, sc)
    /\ requests_held' = requests_held + 1
    /\ cycle' = cycle + 1
    /\ raised' = "none" /\ pubs' = 0 /\ sleeps' = 0 /\ releases' = 0
    /\ pc' = "analyze"
    /\ UNCHANGED <<clock, dog_count, confidence, human_found, frames, prune_list,
                   last_notified, last_dog_time, last_heartbeat, dispatches,
                   hb_dispatches, fsvars, taskvars, rdvars, rd_window,
                   lsvars, fnvars>>

Capture == CaptureOf(MaxCycles, Scenes)

\* line 428 raising (camera error): no request is obtained
CaptureFail ==
    /\ pc = "capture"
    /\ cycle < MaxCycles
    /\ cycle' = cycle + 1
    /\ raised' = "capture" /\ pubs' = 0 /\ sleeps' = 0 /\ releases' = 0
    /\ pc' = "except"
    /\ UNCHANGED <<clock, sensor, request, requests_held,
                   dog_count, confidence, human_found,
                   frames, prune_list, last_notified, last_dog_time,
                   last_heartbeat, dispatches, hb_dispatches, fsvars, taskvars,
                   rdvars, rd_window, lsvars, fnvars>>

\* the camera completes another sample while the request is held
CameraFrame ==
    /\ request # NoSample
    /\ sensor.seq < MaxAhead
    /\ \E sc \in Scenes : sensor' = Sample(sensor.cycle, sensor.seq + 1, sc)
    /\ UNCHANGED <<loopvars, fsvars, taskvars, rdvars, rd_window,
                   lsvars, fnvars>>

\* lines 430-445: metadata, analyze_frame, the privacy gate and the dog test
Analyze ==
    /\ pc = "analyze"
    /\ LET p == parse_detections(request.scene)
           r == analyze_frame(p.dets)
       IN  IF ~p.ok
           THEN /\ raised' = "decode"
                /\ pc' = "finally"
                /\ UNCHANGED <<dog_count, confidence, human_found>>
           ELSE /\ dog_count' = r.dog_count
                /\ confidence' = r.max_dog_confidence
                /\ human_found' = r.human_detected
                /\ pc' = AfterAnalysis(r.human_detected, r.dog_count)
                /\ UNCHANGED raised
    /\ UNCHANGED <<clock, cycle, sensor, request, requests_held, releases,
                   frames, prune_list,
                   last_notified, last_dog_time, last_heartbeat, dispatches,
                   hb_dispatches, pubs, sleeps, fsvars, taskvars, rdvars,
                   rd_window, lsvars, fnvars>>

\* lines 446-456: name the frame after the clock, save the pixels, note the time
SaveFrame ==
    /\ pc = "save"
    /\ LET name == strftime(clock)
       IN  frames' = {f \in frames : f.name # name}
                       \cup {[name |-> name, pix |-> FramePixels(request, sensor),
                              meta |-> request, ctime |-> clock]}
    /\ last_dog_time' = strftime(clock)
    /\ pc' = "prune"
    /\ UNCHANGED <<clock, cycle, sensor, request, requests_held, releases,
                   dog_count, confidence,
                   human_found, raised, prune_list, last_notified,
                   last_heartbeat, dispatches, hb_dispatches, pubs, sleeps,
                   fsvars, taskvars, rdvars, rd_window, lsvars, fnvars>>

\* line 454 raising (disk full, I/O error): no frame, last_dog_time not set
SaveFrameFail ==
    /\ pc = "save"
    /\ raised' = "save"
    /\ pc' = "finally"
    /\ UNCHANGED <<clock, cycle, sensor, request, requests_held, releases,
                   dog_count, confidence,
                   human_found, frames, prune_list, last_notified, last_dog_time,
                   last_heartbeat, dispatches, hb_dispatches, pubs, sleeps,
                   fsvars, taskvars, rdvars, rd_window, lsvars, fnvars>>

\* line 249: frames = sorted(FRAME_DIR.glob("dog_*.jpg"))
PruneList ==
    /\ pc = "prune"
    /\ prune_list' = SortedNames({f.name : f \in frames})
    /\ pc' = "prune_loop"
    /\ UNCHANGED <<clock, cycle, sensor, request, requests_held, releases,
                   dog_count, confidence,
                   human_found, raised, frames, last_notified, last_dog_time,
                   last_heartbeat, dispatches, hb_dispatches, pubs, sleeps,
                   fsvars, taskvars, rdvars, rd_window, lsvars, fnvars>>

\* lines 250-251: one iteration of the while loop
PruneUnlink ==
    /\ pc = "prune_loop"
    /\ MustPrune(prune_list)
    /\ frames' = {f \in frames : f.name # PruneVictim(prune_list)}
    /\ prune_list' = SelectSeq(prune_list, LAMBDA n : n # PruneVictim(prune_list))
    /\ UNCHANGED <<pc, clock, cycle, sensor, request, requests_held, releases,
                   dog_count, confidence,
                   human_found, raised, last_notified, last_dog_time,
                   last_heartbeat, dispatches, hb_dispatches, pubs, sleeps,
                   fsvars, taskvars, rdvars, rd_window, lsvars, fnvars>>

\* line 251 raising: unlink fails
PruneUnlinkFail ==
    /\ pc = "prune_loop"
    /\ MustPrune(prune_list)
    /\ raised' = "prune"
    /\ prune_list' = <<>>
    /\ pc' = "finally"
    /\ UNCHANGED <<clock, cycle, sensor, request, requests_held, releases,
                   dog_count, confidence,
                   human_found, frames, last_notified, last_dog_time,
                   last_heartbeat, dispatches, hb_dispatches, pubs, sleeps,
                   fsvars, taskvars, rdvars, rd_window, lsvars, fnvars>>

\* line 250: the loop condition is false, prune_old_frames returns
PruneDone ==
    /\ pc = "prune_loop"
    /\ ~MustPrune(prune_list)
    /\ prune_list' = <<>>
    /\ pc' = "notify"
    /\ UNCHANGED <<clock, cycle, sensor, request, requests_held, releases,
                   dog_count, confidence,
                   human_found, raised, frames, last_notified, last_dog_time,
                   last_heartbeat, dispatches, hb_dispatches, pubs, sleeps,
                   fsvars, taskvars, rdvars, rd_window, lsvars, fnvars>>

\* lines 466-474: the throttle; play_alert returns at once (AUDIO_ENABLED = False)
Notify ==
    /\ pc = "notify"
    /\ IF ShouldNotify(clock, last_notified)
       THEN /\ notif_tasks' = notif_tasks + 1
            /\ dispatches' = Append(dispatches, clock)
            /\ last_notified' = clock
       ELSE UNCHANGED <<notif_tasks, dispatches, last_notified>>
    /\ pc' = "status"
    /\ UNCHANGED <<clock, cycle, sensor, request, requests_held, releases,
                   dog_count, confidence,
                   human_found, raised, frames, prune_list, last_dog_time,
                   last_heartbeat, hb_dispatches, pubs, sleeps, fsvars, hb_tasks,
                   task_errors, rdvars, rd_window, lsvars, fnvars>>

\* lines 468-472 raising: the thread cannot be started
NotifyFail ==
    /\ pc = "notify"
    /\ ShouldNotify(clock, last_notified)
    /\ raised' = "thread"
    /\ pc' = "finally"
    /\ UNCHANGED <<clock, cycle, sensor, request, requests_held, releases,
                   dog_count, confidence,
                   human_found, frames, prune_list, last_notified, last_dog_time,
                   last_heartbeat, dispatches, hb_dispatches, pubs, sleeps,
                   fsvars, taskvars, rdvars, rd_window, lsvars, fnvars>>

\* ------------------------------------------------------------ update_status
\* a file's text is dropped once no path and no open file refers to it
Collect(d, ino, held) ==
    [i \in Inodes |-> IF (\E q \in Paths : d[q] = i) \/ held = i
                      THEN ino[i] ELSE <<>>]

\* line 243, open(tmp, "w"): create the file, or truncate the one left behind
StatusOpen ==
    /\ pc = "status"
    /\ IF dir[TmpPath] = 0
       THEN /\ dir' = [dir EXCEPT ![TmpPath] = FreeInode]
            /\ inodes' = [inodes EXCEPT ![FreeInode] = <<>>]
       ELSE /\ inodes' = [inodes EXCEPT ![dir[TmpPath]] = <<>>]
            /\ UNCHANGED dir
    /\ pc' = "status_write"
    /\ UNCHANGED <<clock, cycle, sensor, request, requests_held, releases,
                   dog_count, confidence,
                   human_found, raised, frames, prune_list, last_notified,
                   last_dog_time, last_heartbeat, dispatches, hb_dispatches,
                   pubs, sleeps, taskvars, rdvars, rd_window, lsvars, fnvars>>

\* line 243, write(): the next chunk of json.dumps(status); human_present is
\* True at line 438 and False at line 477, which is human_found at both
StatusWrite ==
    /\ pc = "status_write"
    /\ LET text == JsonDumps(StatusDoc(dog_count, human_found, last_dog_time, clock))
           cur == inodes[dir[TmpPath]]
           upto == Min(Len(cur) + ChunkLen, DocLen)
       IN  /\ inodes' = [inodes EXCEPT
                           ![dir[TmpPath]] = cur \o SubSeq(text, Len(cur) + 1, upto)]
           /\ pc' = IF upto = DocLen THEN "status_rename" ELSE "status_write"
    /\ UNCHANGED <<clock, cycle, sensor, request, requests_held, releases,
                   dog_count, confidence,
                   human_found, raised, frames, prune_list, last_notified,
                   last_dog_time, last_heartbeat, dispatches, hb_dispatches,
                   pubs, sleeps, dir, taskvars, rdvars, rd_window,
                   lsvars, fnvars>>

\* line 244, os.rename(tmp, STATUS_FILE); then line 442 or the end of the try
StatusRename ==
    /\ pc = "status_rename"
    /\ LET d == [q \in Paths |-> IF q = STATUS_FILE THEN dir[TmpPath]
                                 ELSE IF q = TmpPath THEN 0 ELSE dir[q]]
       IN  /\ dir' = d
           /\ inodes' = Collect(d, inodes, rd_ino)
           /\ rd_window' =
                IF rd_pc = "idle" THEN rd_window
                ELSE rd_window \cup
                       {[kind |-> "doc", doc |-> JsonLoads(inodes[dir[TmpPath]]).doc]}
    /\ pubs' = pubs + 1
    /\ pc' = IF human_found THEN "privacy_sleep" ELSE "finally"
    /\ UNCHANGED <<clock, cycle, sensor, request, requests_held, releases,
                   dog_count, confidence,
                   human_found, raised, frames, prune_list, last_notified,
                   last_dog_time, last_heartbeat, dispatches, hb_dispatches,
                   sleeps, taskvars, rdvars, lsvars, fnvars>>

\* lines 243-244 raising (I/O error): whatever was written to tmp stays
StatusFail ==
    /\ pc \in {"status", "status_write", "status_rename"}
    /\ raised' = "publish"
    /\ pc' = "finally"
    /\ UNCHANGED <<clock, cycle, sensor, request, requests_held, releases,
                   dog_count, confidence,
                   human_found, frames, prune_list, last_notified, last_dog_time,
                   last_heartbeat, dispatches, hb_dispatches, pubs, sleeps,
                   fsvars, taskvars, rdvars, rd_window, lsvars, fnvars>>

\* ------------------------------------------------- main(): end of iteration
\* mutant: the `continue` goes straight to the next iteration
AfterPrivacySleepNoRelease == "capture"

\* lines 443 and 480: `continue` inside the try block runs the finally clause
AfterPrivacySleep == "finally"

\* line 442: the sleep of the privacy branch, the request still held
PrivacySleep ==
    /\ pc = "privacy_sleep"
    /\ \E d \in SleepTimes : clock' = clock + d
    /\ sleeps' = sleeps + 1
    /\ pc' = AfterPrivacySleep
    /\ UNCHANGED <<cycle, sensor, request, requests_held, releases,
                   dog_count, confidence, human_found,
                   raised, frames, prune_list, last_notified, last_dog_time,
                   last_heartbeat, dispatches, hb_dispatches, pubs, fsvars,
                   taskvars, rdvars, rd_window, lsvars, fnvars>>

\* lines 480-481: request.release(); then the pending exception propagates,
\* or the `continue` of line 443 takes effect, or the try block is left.
\* The locals of the iteration are dead from here on and are cleared; the
\* samples the camera completes while no request is held are never read
\* and are not tracked.
Finally ==
    /\ pc = "finally"
    /\ request' = NoSample
    /\ requests_held' = requests_held - 1
    /\ releases' = releases + 1
    /\ sensor' = NoSample
    /\ pc' = IF raised # "none" THEN "except"
             ELSE IF human_found THEN "capture" ELSE "heartbeat"
    /\ dog_count' = 0 /\ confidence' = 0 /\ human_found' = FALSE
    /\ UNCHANGED <<clock, cycle, raised, frames, prune_list,
                   last_notified, last_dog_time, last_heartbeat, dispatches,
                   hb_dispatches, pubs, sleeps, fsvars, taskvars, rdvars,
                   rd_window, lsvars, fnvars>>

\* lines 484-487: the periodic heartbeat
Heartbeat ==
    /\ pc = "heartbeat"
    /\ IF HeartbeatDue(clock, last_heartbeat)
       THEN /\ hb_tasks' = hb_tasks + 1
            /\ hb_dispatches' = Append(hb_dispatches, clock)
            /\ last_heartbeat' = clock
       ELSE UNCHANGED <<hb_tasks, hb_dispatches, last_heartbeat>>
    /\ pc' = "sleep"
    /\ UNCHANGED <<clock, cycle, sensor, request, requests_held, releases,
                   dog_count, confidence,
                   human_found, raised, frames, prune_list, last_notified,
                   last_dog_time, dispatches, pubs, sleeps, fsvars, notif_tasks,
                   task_errors, rdvars, rd_window, lsvars, fnvars>>

\* line 486 raising: the thread cannot be started
HeartbeatFail ==
    /\ pc = "heartbeat"
    /\ HeartbeatDue(clock, last_heartbeat)
    /\ raised' = "thread"
    /\ pc' = "except"
    /\ UNCHANGED <<clock, cycle, sensor, request, requests_held, releases,
                   dog_count, confidence,
                   human_found, frames, prune_list, last_notified, last_dog_time,
                   last_heartbeat, dispatches, hb_dispatches, pubs, sleeps,
                   fsvars, taskvars, rdvars, rd_window, lsvars, fnvars>>

\* lines 489-490: except Exception: log.error
Except ==
    /\ pc = "except"
    /\ pc' = AfterExcept
    /\ UNCHANGED <<clock, cycle, sensor, request, requests_held, releases,
                   dog_count, confidence,
                   human_found, raised, frames, prune_list, last_notified,
                   last_dog_time, last_heartbeat, dispatches, hb_dispatches,
                   pubs, sleeps, fsvars, taskvars, rdvars, rd_window,
                   lsvars, fnvars>>

\* line 492: time.sleep(CAPTURE_INTERVAL), which takes one of the given times
SleepFor(times) ==
    /\ pc = "sleep"
    /\ \E d \in times : clock' = clock + d
    /\ sleeps' = sleeps + 1
    /\ pc' = "capture"
    /\ UNCHANGED <<cycle, sensor, request, requests_held, releases,
                   dog_count, confidence, human_found,
                   raised, frames, prune_list, last_notified, last_dog_time,
                   last_heartbeat, dispatches, hb_dispatches, pubs, fsvars,
                   taskvars, rdvars, rd_window, lsvars, fnvars>>

Sleep == SleepFor(SleepTimes)

\* ------------------------------------------------------- background threads
\* mutant: a failed delivery resets the throttle so that the next cycle retries
send_notification_rollback ==
    /\ notif_tasks > 0
    /\ notif_tasks' = notif_tasks - 1
    /\ \E ok \in BOOLEAN :
         /\ task_errors' = IF ok THEN task_errors ELSE task_errors + 1
         /\ last_notified' = IF ok THEN last_notified ELSE 0
    /\ UNCHANGED <<pc, clock, cycle, request, requests_held, releases,
                   dog_count, confidence, human_found,
                   raised, frames, prune_list, last_dog_time, last_heartbeat,
                   dispatches, hb_dispatches, pubs, sleeps, sensor, fsvars,
                   hb_tasks, rdvars, rd_window, lsvars, fnvars>>

\* lines 172-192, send_notification in its thread: urlopen delivers the
\* message (ok), or raises and the handler logs the error
send_notification ==
    /\ notif_tasks > 0
    /\ notif_tasks' = notif_tasks - 1
    /\ \E ok \in BOOLEAN :
         task_errors' = IF ok THEN task_errors ELSE task_errors + 1
    /\ UNCHANGED <<loopvars, sensor, fsvars, hb_tasks, rdvars, rd_window,
                   lsvars, fnvars>>

\* lines 195-211, send_heartbeat in its thread: urlopen delivers the message
\* (ok), or raises and the handler logs the error
send_heartbeat ==
    /\ hb_tasks > 0
    /\ hb_tasks' = hb_tasks - 1
    /\ \E ok \in BOOLEAN :
         task_errors' = IF ok THEN task_errors ELSE task_errors + 1
    /\ UNCHANGED <<loopvars, sensor, fsvars, notif_tasks, rdvars, rd_window,
                   lsvars, fnvars>>

\* ------------------------------------------------------------- api_status
\* what a request served at this instant would return
Current ==
    IF dir[STATUS_FILE] = 0 THEN [kind |-> "default", doc |-> DefaultStatus]
    ELSE IF Published.ok THEN [kind |-> "doc", doc |-> Published.doc]
    ELSE [kind |-> "error", doc |-> DefaultStatus]

\* line 343, open(STATUS_FILE); line 344: FileNotFoundError
ReaderOpen ==
    /\ rd_pc = "idle"
    /\ rd_window' = {Current}
    /\ IF dir[STATUS_FILE] = 0
       THEN /\ rd_result' = [kind |-> "default", doc |-> DefaultStatus]
            /\ rd_pc' = "done"
            /\ UNCHANGED <<rd_ino, rd_buf>>
       ELSE /\ rd_ino' = dir[STATUS_FILE]
            /\ rd_buf' = <<>>
            /\ rd_pc' = "read"
            /\ UNCHANGED rd_result
    /\ UNCHANGED <<loopvars, sensor, fsvars, taskvars, lsvars, fnvars>>

\* line 343, read(): the next chunk of the open file
ReaderRead ==
    /\ rd_pc = "read"
    /\ Len(rd_buf) < Len(inodes[rd_ino])
    /\ rd_buf' = rd_buf \o SubSeq(inodes[rd_ino], Len(rd_buf) + 1,
                                  Min(Len(rd_buf) + ChunkLen, Len(inodes[rd_ino])))
    /\ UNCHANGED <<loopvars, sensor, fsvars, taskvars, rd_pc, rd_ino, rd_result,
                   rd_window, lsvars, fnvars>>

\* line 343: end of file, close, json.loads; lines 347-349 on a parse error
ReaderParse ==
    /\ rd_pc = "read"
    /\ Len(rd_buf) >= Len(inodes[rd_ino])
    /\ rd_result' = IF JsonLoads(rd_buf).ok
                    THEN [kind |-> "doc", doc |-> JsonLoads(rd_buf).doc]
                    ELSE [kind |-> "error", doc |-> DefaultStatus]
    /\ rd_ino' = 0
    /\ rd_buf' = <<>>
    /\ inodes' = Collect(dir, inodes, 0)
    /\ rd_pc' = "done"
    /\ UNCHANGED <<loopvars, sensor, dir, taskvars, rd_window, lsvars, fnvars>>

\* the response is sent; the next request may come
ReaderReturn ==
    /\ rd_pc = "done"
    /\ rd_pc' = "idle"
    /\ rd_result' = [kind |-> "none", doc |-> DefaultStatus]
    /\ rd_window' = {}
    /\ UNCHANGED <<loopvars, sensor, fsvars, taskvars, rd_ino, rd_buf, lsvars,
                   fnvars>>

\* ------------------------------------------------------------- api_frames
\* reverse=True: the sequence back to front
RECURSIVE Reverse(_)
Reverse(seq) ==
    IF seq = <<>> THEN <<>> ELSE Append(Reverse(Tail(seq)), Head(seq))

\* seq[:n]
RECURSIVE Slice(_, _)
Slice(seq, n) ==
    IF n = 0 \/ seq = <<>> THEN <<>>
    ELSE <<Head(seq)>> \o Slice(Tail(seq), n - 1)

\* mutant: sorted() without reverse=True, the first names in ascending order
ListFramesAscending(names) == Slice(SortedNames(names), MAX_KEPT_FRAMES)

\* line 354: sorted(FRAME_DIR.glob("dog_*.jpg"), reverse=True)[:MAX_KEPT_FRAMES]
ListFrames(names) == Slice(Reverse(SortedNames(names)), MAX_KEPT_FRAMES)

\* lines 357-362: the date and time cut out of the stem of a file name
TimeStr(name) ==
    [date |-> SubSeq(name, 1, 2), hour |-> SubSeq(name, 3, 4),
     minute |-> SubSeq(name, 5, 6), second |-> SubSeq(name, 7, 8)]

\* lines 355-365: one {name, time} entry per listed file, in the same order
RECURSIVE Entries(_)
Entries(listed) ==
    IF listed = <<>> THEN <<>>
    ELSE <<[name |-> Head(listed), time |-> TimeStr(Head(listed))]>>
             \o Entries(Tail(listed))

\* lines 354-365: the directory is listed (one scan of FRAME_DIR), the names
\* are sorted and cut, and the response is built from the names alone;
\* ls_snapshot keeps what the directory held at that moment
FramesList ==
    /\ ls_pc = "idle"
    /\ ls_snapshot' = {[name |-> f.name, ctime |-> f.ctime] : f \in frames}
    /\ ls_result' = Entries(ListFrames({f.name : f \in frames}))
    /\ ls_pc' = "done"
    /\ UNCHANGED <<loopvars, sensor, fsvars, taskvars, rdvars, rd_window,
                   fnvars>>

\* line 366: the response is sent; the next request may come
FramesReturn ==
    /\ ls_pc = "done"
    /\ ls_pc' = "idle"
    /\ ls_snapshot' = {}
    /\ ls_result' = <<>>
    /\ UNCHANGED <<loopvars, sensor, fsvars, taskvars, rdvars, rd_window,
                   fnvars>>

\* ------------------------------------------- analyze_frame called on its own
\* boxes: inside the frame; half, and two thirds, beyond its right edge;
\* of zero width
BoxInside == <<1, 1, 2, 2>>
BoxHalfOut == <<Grid - 1, 0, Grid + 1, 1>>
BoxMostlyOut == <<Grid - 1, 0, Grid + 2, 1>>
BoxDegenerate == <<1, 1, 1, 2>>
TestBoxes == {BoxInside, BoxHalfOut, BoxMostlyOut, BoxDegenerate}
\* scores: at and just below each threshold, and well above both
TestScores ==
    {PERSON_CONFIDENCE_THRESHOLD - 1, PERSON_CONFIDENCE_THRESHOLD,
     DOG_CONFIDENCE_THRESHOLD - 1, DOG_CONFIDENCE_THRESHOLD, 90}
TestLabels == {PERSON_CLASS, DOG_CLASS, "bicycle"}
TestDetections == [label : TestLabels, score : TestScores, bbox : TestBoxes]
DetectionSeqs == UNION {[1..n -> TestDetections] : n \in 0..MaxDets}

InitAnalyzeFrame ==
    /\ InitMain
    /\ frames = {}
    /\ fn_pc = "analyze_frame"
    /\ fn_arg \in DetectionSeqs
    /\ fn_result = <<>>

\* lines 153-169: the loop over the detections and the return
CallAnalyzeFrame ==
    /\ fn_pc = "analyze_frame"
    /\ fn_result' = analyze_frame(fn_arg)
    /\ fn_pc' = "analyze_frame returned"
    /\ UNCHANGED <<loopvars, sensor, fsvars, taskvars, rdvars, rd_window,
                   lsvars, fn_arg>>

\* ----------------------------------- bbox_overlap_fraction called on its own
\* the normalized rectangles of the grid, degenerate ones included
Rects ==
    {b \in (0..Grid) \X (0..Grid) \X (0..Grid) \X (0..Grid) :
        b[1] <= b[3] /\ b[2] <= b[4]}

InitOverlap ==
    /\ InitMain
    /\ frames = {}
    /\ fn_pc = "bbox_overlap_fraction"
    /\ fn_arg \in Rects \X Rects
    /\ fn_result = <<>>

\* lines 99-117
CallOverlap ==
    /\ fn_pc = "bbox_overlap_fraction"
    /\ fn_result' = bbox_overlap_fraction(fn_arg[1], fn_arg[2])
    /\ fn_pc' = "bbox_overlap_fraction returned"
    /\ UNCHANGED <<loopvars, sensor, fsvars, taskvars, rdvars, rd_window,
                   lsvars, fn_arg>>

\* ------------------------------------------------------------ specifications
Loop ==
    \/ Capture \/ CaptureFail \/ Analyze
    \/ SaveFrame \/ SaveFrameFail
    \/ PruneList \/ PruneUnlink \/ PruneUnlinkFail \/ PruneDone
    \/ Notify \/ NotifyFail
    \/ StatusOpen \/ StatusWrite \/ StatusRename \/ StatusFail
    \/ PrivacySleep \/ Finally \/ Heartbeat \/ HeartbeatFail \/ Except \/ Sleep

\* the detection loop and the detached threads
Next == Loop \/ send_notification \/ send_heartbeat

Spec == Init /\ [][Next]_vars

\* the detection loop and the camera completing samples on its own
NextCamera == Loop \/ CameraFrame

SpecCamera == Init /\ [][NextCamera]_vars

\* the detection loop and a dashboard request for /api/status
NextStatus == Loop \/ ReaderOpen \/ ReaderRead \/ ReaderParse \/ ReaderReturn

SpecStatus == Init /\ [][NextStatus]_vars

\* a run of cycles that each see a dog and no human and in which nothing
\* fails, starting with an empty FRAME_DIR; a sleep takes the interval or a
\* whole cooldown
CaptureDog == CaptureOf(MaxRun, {SceneDog})

SleepShort == SleepFor({CAPTURE_INTERVAL, NOTIFY_COOLDOWN})

InitStore == Init /\ frames = {}

NextStore ==
    \/ CaptureDog \/ Analyze \/ SaveFrame
    \/ PruneList \/ PruneUnlink \/ PruneDone
    \/ Notify \/ StatusOpen \/ StatusWrite \/ StatusRename
    \/ Finally \/ Heartbeat \/ SleepShort

SpecStore == InitStore /\ [][NextStore]_vars

\* the detection loop and a dashboard request for /api/frames
NextFrames == Loop \/ FramesList \/ FramesReturn

SpecFrames == Init /\ [][NextFrames]_vars

\* analyze_frame applied to every detection sequence of the test set
SpecAnalyzeFrame == InitAnalyzeFrame /\ [][CallAnalyzeFrame]_vars

\* bbox_overlap_fraction applied to every pair of rectangles of the grid
SpecOverlap == InitOverlap /\ [][CallOverlap]_vars

TypeOK ==
    /\ pc \in {"capture", "analyze", "save", "prune", "prune_loop", "notify",
               "status", "status_write", "status_rename", "privacy_sleep",
               "finally", "heartbeat", "except", "sleep"}
    /\ cycle \in 0..Max(MaxCycles, MaxRun)
    /\ raised \in {"none", "capture", "decode", "save", "prune", "publish", "thread"}
    /\ Cardinality(frames) <= MAX_KEPT_FRAMES + MaxCycles
    /\ notif_tasks \in 0..Max(MaxCycles, MaxRun)
    /\ hb_tasks \in 0..(MaxCycles + 1)
    /\ task_errors \in 0..(2 * MaxCycles + 1)
    /\ requests_held \in 0..1 /\ releases \in 0..1
    /\ \A f, g \in frames : f.name = g.name => f = g
    /\ ls_pc \in {"idle", "done"}
    /\ Len(ls_result) <= Cardinality(ls_snapshot)
    /\ fn_pc \in {"none", "analyze_frame", "analyze_frame returned",
                  "bbox_overlap_fraction", "bbox_overlap_fraction returned"}

\* ------------------------------------------------------------------ claims
\* C1: in a cycle whose analysis found a human, no step writes or removes a
\* frame, lists the frame store, dispatches a notification, or changes the
\* throttle state or the last-dog-seen time; the status is published at most
\* once, exactly once when the privacy sleep is reached, and the document
\* published then has privacy_mode = true and recording_active = false.
C1_PrivacyInvariant ==
    /\ [][human_found =>
            /\ frames' = frames
            /\ prune_list' = prune_list
            /\ dispatches' = dispatches
            /\ notif_tasks' <= notif_tasks
            /\ last_notified' = last_notified
            /\ last_dog_time' = last_dog_time]_vars
    /\ [](human_found => pubs <= 1)
    /\ [](pc = "privacy_sleep" =>
            /\ pubs = 1
            /\ Published.ok
            /\ Published.doc.privacy_mode
            /\ ~Published.doc.recording_active
            /\ Published.doc.timestamp = clock)

\* a privacy cycle with a dog in the frame has published its status
C1_Witness ==
    pc = "privacy_sleep" /\ human_found /\ dog_count > 0 /\ pubs = 1

\* C2: every frame in the store holds the pixels of the sample whose metadata
\* was analysed in the cycle that saved it, and that sample's analysis
\* reports no human.
C2_SameSample ==
    \A f \in frames :
        /\ f.pix = f.meta
        /\ ~analyze_frame(parse_detections(f.pix.scene).dets).human_detected
        /\ parse_detections(f.pix.scene).ok

\* a frame was saved after the camera had completed a later sample, one with
\* a human in it
C2_Witness ==
    /\ pc = "prune"
    /\ \E f \in frames : f.meta = request /\ f.ctime = clock
    /\ sensor.seq > request.seq
    /\ sensor.scene = ScenePersonDog

\* C3: when prune_old_frames returns, the store holds at most MAX_KEPT_FRAMES
\* frames; and every frame removed from the store is one created earliest
\* among the frames held at that moment.
C3_BoundedOldestFirst ==
    /\ [](pc = "notify" => Cardinality(frames) <= MAX_KEPT_FRAMES)
    /\ [][\A f \in frames \ frames' : \A g \in frames : f.ctime <= g.ctime]_vars

\* prune_old_frames has returned after evicting a prior frame: the store is
\* full and holds the frame of this cycle
C3_Witness ==
    /\ pc = "notify"
    /\ Cardinality(frames) = MAX_KEPT_FRAMES
    /\ \E f \in frames : f.ctime = clock
    /\ \E f \in PriorFrames : f \notin frames

\* C4: any two notification dispatches are more than NOTIFY_COOLDOWN apart.
C4_OnePerCooldown ==
    \A i, j \in DOMAIN dispatches :
        i < j => dispatches[j] - dispatches[i] > NOTIFY_COOLDOWN

\* two notifications have been dispatched and both threads are still running
C4_Witness ==
    Len(dispatches) >= 2 /\ notif_tasks >= 2

\* C5: a cycle publishes its status at most once, and exactly once when it
\* ends without an exception, whichever branch it took; after the publish the
\* cycle changes neither the frame store nor the throttle state nor the set
\* of notifications dispatched; and a document with recording_active = true
\* becomes visible only when the frame of that cycle is in the store.
C5_PublishOnceLast ==
    /\ [](pubs <= 1)
    /\ []((pc \in {"capture", "heartbeat", "sleep"} /\ cycle > 0 /\ raised = "none")
            => pubs = 1)
    /\ [][(pubs = 1 /\ cycle' = cycle) =>
            /\ frames' = frames
            /\ last_notified' = last_notified
            /\ dispatches' = dispatches]_vars
    /\ [][(pubs' = pubs + 1 /\ Published'.doc.recording_active) =>
            \E f \in frames : f.ctime = clock /\ f.name = strftime(clock)]_vars

\* a dog cycle has published recording_active = true after saving its frame
C5_Witness ==
    /\ pc = "finally" /\ pubs = 1 /\ raised = "none"
    /\ Published.ok /\ Published.doc.recording_active
    /\ Published.doc.timestamp = clock

\* C6: a request for /api/status returns the document that was current at
\* some moment of the request (the one published last when the file was
\* opened, or one published while it was read), complete and unmixed; it
\* returns the default document only if there was no status file when the
\* request opened it; it never returns an error.
C6_AtomicPublish ==
    rd_pc = "done" =>
        /\ rd_result.kind \in {"doc", "default"}
        /\ rd_result \in rd_window

\* a request has returned the previous document although a new one was
\* published while it was reading
C6_Witness ==
    /\ rd_pc = "done"
    /\ rd_result.kind = "doc"
    /\ Cardinality(rd_window) >= 2
    /\ Current # rd_result

\* C7: once an exception is raised in a cycle, the loop goes on (a step of
\* the loop is enabled until the next cycle is reached), and the next cycle
\* is reached after exactly one sleep.
C7_ExceptionCaught ==
    /\ raised # "none" => pc \in {"finally", "except", "sleep", "capture"}
    /\ (raised # "none" /\ pc # "capture") => sleeps = 0 /\ ENABLED Loop
    /\ (raised # "none" /\ pc = "capture") => sleeps = 1
    /\ (raised # "none" /\ pc = "capture" /\ cycle < MaxCycles) => ENABLED Capture

\* a cycle whose frame save failed has slept once and the next cycle can start
C7_Witness ==
    raised = "save" /\ pc = "capture" /\ sleeps = 1 /\ cycle < MaxCycles

\* C8: a cycle whose frame write or eviction failed has, when it goes to
\* sleep, published a status of its own that shows no recording.
C8_PersistFailurePublishes ==
    (pc = "sleep" /\ raised \in {"save", "prune"}) =>
        /\ pubs = 1
        /\ Published.ok
        /\ Published.doc.timestamp = clock
        /\ ~Published.doc.recording_active

\* C9: a cycle whose raw inference output was malformed has, when it goes to
\* sleep, published an idle status of its own, and has saved no frame and
\* dispatched no notification.
C9_MalformedIsIdle ==
    (pc = "sleep" /\ raised = "decode") =>
        /\ pubs = 1
        /\ Published.ok
        /\ Published.doc.timestamp = clock
        /\ ~Published.doc.dog_detected
        /\ ~Published.doc.privacy_mode
        /\ \A f \in frames : f.ctime # clock
        /\ \A i \in DOMAIN dispatches : dispatches[i] # clock

\* C10: when a cycle has done its work without an exception and goes to
\* sleep (line 442 in privacy mode, line 492 otherwise), no heartbeat is
\* overdue: if one was due in the cycle it has been dispatched, whatever the
\* detection outcome of the cycle.
C10_HeartbeatEveryCycle ==
    (pc \in {"sleep", "privacy_sleep"} /\ raised = "none") =>
        ~HeartbeatDue(clock, last_heartbeat)

\* the three derived fields of a status document agree with its dog count
\* and human flag
DocConsistent(d) ==
    /\ d.recording_active = (d.dog_count > 0 /\ ~d.human_detected)
    /\ d.privacy_mode = d.human_detected
    /\ d.dog_detected = (d.dog_count > 0)

\* C12: in every reachable state the document in the status file satisfies
\* recording_active = (dog_count > 0 and not human_detected), privacy_mode =
\* human_detected and dog_detected = (dog_count > 0); and so does the
\* document update_status would write at that moment for every dog count
\* and every human flag.
C12_StatusFieldsConsistent ==
    /\ Published.ok => DocConsistent(Published.doc)
    /\ \A dc \in 0..MaxDogs, hp \in BOOLEAN :
         LET d == JsonLoads(JsonDumps(StatusDoc(dc, hp, last_dog_time, clock))).doc
         IN  DocConsistent(d) /\ d.dog_count = dc /\ d.human_detected = hp

\* the status file holds the document of a cycle that saw a dog and a human
C12_Witness ==
    /\ Published.ok
    /\ Published.doc.dog_count > 0
    /\ Published.doc.human_detected
    /\ Published.doc.dog_detected
    /\ ~Published.doc.recording_active

\* C14: when a qualifying cycle evaluates the throttle (and starting the
\* thread does not raise), a notification is dispatched and the clock is
\* recorded as last_notified exactly when none was dispatched before or the
\* clock is more than NOTIFY_COOLDOWN past last_notified; otherwise nothing
\* is dispatched and last_notified is left as it was; and last_notified is
\* always the time of the latest dispatch (0 before the first).
C14_ThrottleDecision ==
    /\ [][(pc = "notify" /\ pc' = "status") =>
            IF dispatches = <<>> \/ clock - last_notified > NOTIFY_COOLDOWN
            THEN /\ dispatches' = Append(dispatches, clock)
                 /\ notif_tasks' = notif_tasks + 1
                 /\ last_notified' = clock
            ELSE /\ dispatches' = dispatches
                 /\ notif_tasks' = notif_tasks
                 /\ last_notified' = last_notified]_vars
    /\ [](last_notified = IF dispatches = <<>> THEN 0
                          ELSE dispatches[Len(dispatches)])

\* a second qualifying cycle, exactly one cooldown after the first
\* notification, has passed the throttle without dispatching
C14_Witness ==
    /\ pc = "status"
    /\ \E f \in frames : f.ctime = clock
    /\ Len(dispatches) = 1
    /\ clock - dispatches[1] = NOTIFY_COOLDOWN
    /\ last_notified = dispatches[1]

\* C17: last_dog_time changes only in the step that puts the cycle's frame
\* in the store, and that step dispatches nothing; a notification is
\* dispatched, and last_notified changed, only at the throttle step of a
\* cycle that has raised nothing, whose frame is in the store and whose time
\* is in last_dog_time; in a cycle whose frame save failed no notification
\* is dispatched.
C17_SaveThenStampThenThrottle ==
    /\ [][last_dog_time' # last_dog_time =>
            /\ pc = "save"
            /\ \E f \in frames' \ frames : f.ctime = clock /\ f.meta = request
            /\ last_dog_time' = strftime(clock)
            /\ dispatches' = dispatches
            /\ last_notified' = last_notified]_vars
    /\ [][(dispatches' # dispatches \/ last_notified' # last_notified) =>
            /\ pc = "notify"
            /\ raised = "none"
            /\ \E f \in frames :
                  f.ctime = clock /\ f.meta = request /\ f.name = strftime(clock)
            /\ last_dog_time = strftime(clock)]_vars
    /\ [](raised = "save" => \A i \in DOMAIN dispatches : dispatches[i] < clock)

\* the first cycle saved its frame and notified; the frame save of the
\* second cycle failed with the cooldown over, and nothing was dispatched
C17_Witness ==
    /\ raised = "save" /\ pc = "except"
    /\ Len(dispatches) = 1
    /\ \E f \in frames : f.ctime = dispatches[1]
    /\ ShouldNotify(clock, last_notified)

\* C18: a step of a background task (a send_notification or send_heartbeat
\* thread ending, delivered or failed) leaves the loop's position and
\* locals, last_notified, last_heartbeat, last_dog_time, the frame store and
\* the status files unchanged; last_notified and last_heartbeat stay the
\* times of the latest dispatches whatever became of the deliveries; and
\* with any number of tasks in flight or failed every cycle sleeps exactly
\* once, the next capture can be taken, and the throttle and heartbeat
\* steps can be taken.
C18_TasksLeaveCycleState ==
    /\ [][(notif_tasks' < notif_tasks \/ hb_tasks' < hb_tasks
            \/ task_errors' # task_errors) =>
            UNCHANGED <<loopvars, fsvars>>]_vars
    /\ [](last_notified = IF dispatches = <<>> THEN 0
                          ELSE dispatches[Len(dispatches)])
    /\ [](last_heartbeat = hb_dispatches[Len(hb_dispatches)])
    /\ []((pc = "capture" /\ cycle > 0) => sleeps = 1)
    /\ []((pc = "capture" /\ cycle < MaxCycles) => ENABLED Capture)
    /\ [](pc = "notify" => ENABLED Notify)
    /\ [](pc = "heartbeat" => ENABLED Heartbeat)

\* the only notification sent failed to be delivered (the heartbeats are
\* all still in flight); the throttle keeps the time of that dispatch and
\* the next cycle is under way
C18_Witness ==
    /\ task_errors = 1
    /\ hb_tasks = Len(hb_dispatches)
    /\ notif_tasks = 0
    /\ Len(dispatches) = 1
    /\ last_notified = dispatches[1]
    /\ cycle = 2 /\ pc = "analyze"

\* the frames this run of main() has saved (those of PriorFrames were saved
\* by an earlier run), and the time of the one saved last, <<>> if none
OwnFrames == {f \in frames : f.meta.cycle > 0}
LastSavedTime ==
    IF OwnFrames = {} THEN <<>>
    ELSE strftime((CHOOSE f \in OwnFrames :
                     \A g \in OwnFrames : g.ctime <= f.ctime).ctime)

\* C20: last_dog_time is None until this run has saved a frame, and from
\* then on the time of the frame saved last; every publish puts exactly that
\* value in last_dog_seen; only a cycle with a dog and no human changes it
\* (privacy-mode and idle cycles publish the value they found); and once the
\* status file shows a non-null last_dog_seen it never shows null again.
C20_LastDogSeen ==
    /\ [](last_dog_time = LastSavedTime)
    /\ [][pubs' = pubs + 1 =>
            /\ Published'.ok
            /\ Published'.doc.last_dog_seen = last_dog_time
            /\ Published'.doc.last_dog_seen = LastSavedTime]_vars
    /\ [][last_dog_time' # last_dog_time => (dog_count > 0 /\ ~human_found)]_vars
    /\ [][(Published.ok /\ Published.doc.last_dog_seen # <<>>) =>
            (Published'.ok /\ Published'.doc.last_dog_seen # <<>>)]_vars

\* a privacy-mode cycle has republished the time of the frame an earlier
\* cycle saved
C20_Witness ==
    /\ pc = "privacy_sleep"
    /\ Published.ok /\ Published.doc.privacy_mode
    /\ Published.doc.timestamp = clock
    /\ Published.doc.last_dog_seen # <<>>
    /\ Published.doc.last_dog_seen # strftime(clock)
    /\ Published.doc.last_dog_seen = LastSavedTime

\* C19: at most one capture request is held; none is held when the next
\* one is obtained, nor in the heartbeat test, the exception handler or the
\* final sleep; a request that is held has not been released; and when an
\* iteration has left its try block (by the privacy `continue`, by normal
\* completion or by an exception) it has called release exactly once if it
\* obtained a request, and not at all if the capture itself failed.
C19_ReleaseExactlyOnce ==
    /\ requests_held = (IF request = NoSample THEN 0 ELSE 1)
    /\ releases <= 1
    /\ requests_held > 0 => releases = 0
    /\ pc \in {"capture", "except", "heartbeat", "sleep"} => requests_held = 0
    /\ (pc \in {"except", "heartbeat", "sleep"} \/ (pc = "capture" /\ cycle > 0))
         => releases = (IF raised = "capture" THEN 0 ELSE 1)

\* the request of a cycle whose eviction raised has been released once
C19_Witness ==
    raised = "prune" /\ pc = "except" /\ releases = 1 /\ requests_held = 0

\* the unit squares of the grid a box covers (none if it is degenerate)
CellsOf(b) == {<<x, y>> : x \in b[1]..(b[3] - 1), y \in b[2]..(b[4] - 1)}

\* at least ROI_OVERLAP_THRESHOLD percent of the box's area lies in the ROI
InRoi(b) ==
    /\ CellsOf(b) # {}
    /\ 100 * Cardinality(CellsOf(b) \cap CellsOf(COUCH_ROI))
         >= ROI_OVERLAP_THRESHOLD * Cardinality(CellsOf(b))

\* C15: for every detection sequence, analyze_frame returns human_detected =
\* true exactly when some detection is a person with score >=
\* PERSON_CONFIDENCE_THRESHOLD, whatever its box and the other detections;
\* dog_count is the number of detections (positions in the sequence, equal
\* ones counted apart) that are dogs with score >= DOG_CONFIDENCE_THRESHOLD
\* and at least ROI_OVERLAP_THRESHOLD of their area in the ROI; and
\* max_dog_confidence is the largest score among those, 0 if there are none.
C15_AnalyzeFrame ==
    fn_pc = "analyze_frame returned" =>
        LET dets == fn_arg
            Humans == {i \in DOMAIN dets :
                         /\ dets[i].label = PERSON_CLASS
                         /\ dets[i].score >= PERSON_CONFIDENCE_THRESHOLD}
            Counted == {i \in DOMAIN dets :
                          /\ dets[i].label = DOG_CLASS
                          /\ dets[i].score >= DOG_CONFIDENCE_THRESHOLD
                          /\ InRoi(dets[i].bbox)}
        IN  /\ fn_result.human_detected = (Humans # {})
            /\ fn_result.dog_count = Cardinality(Counted)
            /\ IF Counted = {} THEN fn_result.max_dog_confidence = 0
               ELSE /\ \E i \in Counted :
                         fn_result.max_dog_confidence = dets[i].score
                    /\ \A i \in Counted :
                         fn_result.max_dog_confidence >= dets[i].score

\* a person at the threshold, most of its box outside the frame, followed by
\* a dog that counts: human_detected, and the dog is counted all the same
C15_Witness ==
    /\ fn_pc = "analyze_frame returned"
    /\ Len(fn_arg) = 2
    /\ fn_arg[1].label = PERSON_CLASS
    /\ fn_arg[1].score = PERSON_CONFIDENCE_THRESHOLD
    /\ fn_arg[1].bbox = BoxMostlyOut
    /\ fn_arg[2].label = DOG_CLASS
    /\ fn_arg[2].bbox = BoxHalfOut
    /\ fn_result.human_detected
    /\ fn_result.dog_count = 1
    /\ fn_result.max_dog_confidence = fn_arg[2].score

\* two rectangles (their edges included) have no point in common
Disjoint(b, r) == b[3] < r[1] \/ r[3] < b[1] \/ b[4] < r[2] \/ r[4] < b[2]
\* every point of b is a point of r
Inside(b, r) == r[1] <= b[1] /\ b[3] <= r[3] /\ r[2] <= b[2] /\ b[4] <= r[4]
Area(b) == (b[3] - b[1]) * (b[4] - b[2])

\* C16 as stated: for all normalized rectangles b and r, degenerate ones
\* included, bbox_overlap_fraction(b, r) lies in [0, 1], is 0 when b and r
\* are disjoint, and is 1 when b is fully inside r.
C16_OverlapAsStated ==
    fn_pc = "bbox_overlap_fraction returned" =>
        /\ fn_result.den > 0
        /\ 0 <= fn_result.num /\ fn_result.num <= fn_result.den
        /\ Disjoint(fn_arg[1], fn_arg[2]) => fn_result.num = 0
        /\ Inside(fn_arg[1], fn_arg[2]) => fn_result.num = fn_result.den

\* C16, amended: for all normalized rectangles b and r,
\* bbox_overlap_fraction(b, r) lies in [0, 1], is 0 when b and r are
\* disjoint, is 0 when b is degenerate (zero area), and is 1 when b has
\* positive area and is fully inside r.
C16_OverlapFraction ==
    fn_pc = "bbox_overlap_fraction returned" =>
        /\ fn_result.den > 0
        /\ 0 <= fn_result.num /\ fn_result.num <= fn_result.den
        /\ Disjoint(fn_arg[1], fn_arg[2]) => fn_result.num = 0
        /\ Area(fn_arg[1]) = 0 => fn_result.num = 0
        /\ (Inside(fn_arg[1], fn_arg[2]) /\ Area(fn_arg[1]) > 0)
             => fn_result.num = fn_result.den

\* a box of positive area inside a larger ROI: the fraction returned is 1
C16_Witness ==
    /\ fn_pc = "bbox_overlap_fraction returned"
    /\ Inside(fn_arg[1], fn_arg[2])
    /\ Area(fn_arg[1]) > 0
    /\ Area(fn_arg[2]) > Area(fn_arg[1])
    /\ fn_result.num = fn_result.den

\* the files of a set that are among its k most recent
MostRecent(S, k) ==
    {f \in S : Cardinality({g \in S : g.ctime > f.ctime}) < k}

\* C11: whenever /api/frames is served, whatever the detection loop is in the
\* middle of (a frame saved and the eviction still to come included), the
\* list has at most MAX_KEPT_FRAMES entries, most recent first, and its
\* entries are exactly the MAX_KEPT_FRAMES most recent files in FRAME_DIR at
\* the moment of the listing (all of them if there are fewer): no file
\* already unlinked, and no file the pending eviction will remove while a
\* more recent one is left out.
C11_ListingMostRecentFirst ==
    /\ [][(ls_pc = "idle" /\ ls_pc' = "done") =>
            /\ {ls_result'[i].name : i \in DOMAIN ls_result'}
                 = {f.name : f \in MostRecent(frames, MAX_KEPT_FRAMES)}
            /\ ls_snapshot'
                 = {[name |-> f.name, ctime |-> f.ctime] : f \in frames}]_vars
    /\ [](ls_pc = "done" =>
            /\ Len(ls_result) <= MAX_KEPT_FRAMES
            /\ Len(ls_result) = Min(Cardinality(ls_snapshot), MAX_KEPT_FRAMES)
            /\ \A i \in DOMAIN ls_result :
                 \E f \in ls_snapshot :
                    /\ f.name = ls_result[i].name
                    /\ Cardinality({g \in ls_snapshot : g.ctime > f.ctime})
                         = i - 1)

\* a listing made between a save and the eviction that follows it: the
\* directory held one file more than MAX_KEPT_FRAMES, the list leaves out
\* the oldest
C11_Witness ==
    /\ ls_pc = "done"
    /\ pc \in {"prune", "prune_loop"}
    /\ Cardinality(ls_snapshot) = MAX_KEPT_FRAMES + 1
    /\ ls_snapshot = {[name |-> f.name, ctime |-> f.ctime] : f \in frames}
    /\ Len(ls_result) = MAX_KEPT_FRAMES
    /\ ls_result[1].name = strftime(clock)

\* C13: starting from an empty store, in a run of cycles that each see a dog
\* and no human, every save adds one file and leaves the files already there
\* in place; and once the eviction of the n-th cycle has returned the store
\* holds exactly min(n, MAX_KEPT_FRAMES) files, those saved by the
\* min(n, MAX_KEPT_FRAMES) latest cycles.
C13_KeepsLatestFrames ==
    /\ [][(pc = "save" /\ pc' = "prune") =>
            /\ frames \subseteq frames'
            /\ Cardinality(frames') = Cardinality(frames) + 1
            /\ \E f \in frames' \ frames : f.meta.cycle = cycle]_vars
    /\ [](pc \notin {"analyze", "save", "prune", "prune_loop"} =>
            /\ Cardinality(frames) = Min(cycle, MAX_KEPT_FRAMES)
            /\ {f.meta.cycle : f \in frames}
                 = Max(1, cycle - MAX_KEPT_FRAMES + 1)..cycle)

\* the eviction of the eleventh cycle has returned: ten files, those of
\* cycles 2 to 11
C13_Witness ==
    /\ pc = "notify"
    /\ cycle = MAX_KEPT_FRAMES + 1
    /\ Cardinality(frames) = MAX_KEPT_FRAMES
    /\ \A f \in frames : f.meta.cycle >= 2
    /\ \E f \in frames : f.meta.cycle = MAX_KEPT_FRAMES + 1

====
